---- MODULE Spec2Model ----
(***************************************************************************)
(* Model of src/app.py: transform_data (Aurora design document -> flat     *)
(* Quickbase record) followed by QuickbaseClient.upsert_record.            *)
(*                                                                         *)
(* JSON / Python values are tagged records [t, v]:                         *)
(*   "null" None, "int" integer, "dec2" a number rounded to two decimals   *)
(*   (v is the value in hundredths), "bool", "str", "map" (dict, v is a    *)
(*   function from keys to values), "list" (v is a sequence), "json" (the  *)
(*   text produced by json.dumps, v = [src, n, full]: the first n          *)
(*   characters of a serialization that is full characters long).          *)
(***************************************************************************)
EXTENDS Integers, Sequences, FiniteSets, TLC

\* ---------------------------------------------------------------- bounds
MaxArrays == 2
MaxBom == 2

\* ---------------------------------------------------------------- values
JNull == [t |-> "null", v |-> 0]
JInt(n) == [t |-> "int", v |-> n]
JDec2(h) == [t |-> "dec2", v |-> h]
JBool(b) == [t |-> "bool", v |-> b]
JStr(s) == [t |-> "str", v |-> s]
JMap(f) == [t |-> "map", v |-> f]
JList(s) == [t |-> "list", v |-> s]
JText(src, n, full) == [t |-> "json", v |-> [src |-> src, n |-> n, full |-> full]]
EmptyMap == JMap(<<>>)
EmptyList == JList(<<>>)

\* Python truthiness (`if x:`)
Truthy(x) ==
  CASE x.t = "null" -> FALSE
    [] x.t = "int" -> x.v # 0
    [] x.t = "dec2" -> x.v # 0
    [] x.t = "bool" -> x.v
    [] x.t = "str" -> x.v # ""
    [] x.t = "map" -> DOMAIN x.v # {}
    [] x.t = "list" -> Len(x.v) > 0
    [] x.t = "json" -> x.v.n > 0

\* x.get(...) raises AttributeError unless x is a dict
HasGet(x) == x.t = "map"

\* dict.get(key, default) on a dict
Get(x, key, default) == IF key \in DOMAIN x.v THEN x.v[key] ELSE default

\* len(x) raises TypeError on numbers, None and booleans
HasLen(x) == x.t \in {"list", "map", "str", "json"}

PyLen(x) ==
  CASE x.t = "list" -> Len(x.v)
    [] x.t = "map" -> Cardinality(DOMAIN x.v)
    [] OTHER -> 1

\* the items a `for` loop visits (the sequences of the modelled documents are lists)
Items(x) == IF x.t = "list" THEN x.v ELSE <<>>

\* ---------------------------------------------------------------- strings
\* Strings are atomic in the model; the operations the code applies to them
\* are tabulated over the vocabulary of the modelled documents.
LongId == "design-id-of-1200-characters"
LongIdCut == "design-id-of-1200-characters[:1000]"

StrLen(s) ==
  CASE s = LongId -> 1200
    [] s = LongIdCut -> 1000
    [] s = "" -> 0
    [] s \in {"{}", "[]"} -> 2
    [] s = "[abc" -> 4
    [] s = "[1, 2]" -> 6
    [] s = "{\"a\": [1, 2" -> 11
    [] OTHER -> 8

\* s[:n]
Slice(s, n) == IF s = LongId /\ n = 1000 THEN LongIdCut ELSE s

\* str.lower()
Lower(s) ==
  CASE s = "Landscape" -> "landscape"
    [] s = "LANDSCAPE-mixed" -> "landscape-mixed"
    [] s = "Modules" -> "modules"
    [] s = "Racking" -> "racking"
    [] s = "N/A" -> "n/a"
    [] OTHER -> s

\* 'landscape' in s
ContainsLandscape(s) == s \in {"landscape", "landscape-mixed"}

\* str(value) of a non-string scalar (the integers of the vocabulary: 0, 7, 85)
Str(x) ==
  CASE x.t = "int" -> IF x.v = 7 THEN "7" ELSE IF x.v = 85 THEN "85" ELSE "0"
    [] x.t = "bool" -> IF x.v THEN "True" ELSE "False"
    [] OTHER -> "obj"

\* int(s) / float(s): the numeric strings of the vocabulary
IsNumeric(s) == s \in {"3", "6"}
ParseNum(s) == IF s = "3" THEN 3 ELSE 6

\* ---------------------------------------------------------------- coercion
safe_numeric_value(value, default) ==
  CASE value.t = "null" -> default
    [] value.t \in {"int", "dec2", "bool"} -> value
    [] value.t = "str" -> IF IsNumeric(value.v) THEN JInt(ParseNum(value.v)) ELSE default
    [] OTHER -> default

\* a conversion that hands a null through
safe_string_value_nullable(value, default, max_length) ==
  CASE value.t = "str" ->
         IF StrLen(value.v) > max_length THEN JStr(Slice(value.v, max_length)) ELSE value
    [] value.t = "null" -> value
    [] OTHER -> JStr(Slice(Str(value), max_length))

safe_string_value(value, default, max_length) ==
  CASE value.t = "null" -> default
    [] value.t = "str" ->
         IF StrLen(value.v) > max_length THEN JStr(Slice(value.v, max_length)) ELSE value
    [] OTHER -> JStr(Slice(Str(value), max_length))

\* the integer a Python number contributes to a sum (True counts as 1)
Num(x) == IF x.t = "bool" THEN (IF x.v THEN 1 ELSE 0) ELSE x.v

\* round(num / den, 2) in hundredths.  A tie is settled by the binary
\* representation of the quotient, so both neighbours are possible results.
Round2(num, den) ==
  LET q == (100 * num) \div den
      r == (100 * num) % den
  IN IF 2 * r < den THEN {q}
     ELSE IF 2 * r > den THEN {q + 1}
     ELSE {q, q + 1}

\* str.replace('%', '')
StripPercent(s) == IF s = "85%" THEN "85" ELSE s

\* f"{first} {last}".strip()
FullName(first, last) ==
  CASE first = "" -> last
    [] last = "" -> first
    [] OTHER -> first \o " " \o last

\* ---------------------------------------------------------------- registry
VALID_FIELDS ==
  (1..30) \cup {32, 33, 34} \cup (36..54) \cup (56..75) \cup (80..87) \cup {91}

NumericDefaults ==
  {19, 20, 23, 24, 25, 26, 27, 30, 32, 33, 34, 36, 37, 38, 39, 41, 44, 47, 50,
   51, 56, 59, 60, 62, 65, 66, 67, 71}
EmptyObjectDefaults == {10, 11, 12, 13, 40, 42, 43, 74}
EmptyArrayDefaults == {29, 53, 73}
NotAvailableDefaults ==
  {15, 46, 48, 49, 54, 57, 58, 61, 63, 64, 68, 69, 70, 72, 75, 80, 81, 82, 83,
   84, 85, 86, 87, 91}

\* a defaults table that forgot field 75 (Roof Metrics)
field_defaults_without_75 ==
  [f \in NumericDefaults |-> JInt(0)]
    @@ [f \in EmptyObjectDefaults |-> JStr("{}")]
    @@ [f \in EmptyArrayDefaults |-> JStr("[]")]
    @@ [f \in NotAvailableDefaults \ {75} |-> JStr("N/A")]
    @@ (8 :> JStr("webhook")) @@ (14 :> JInt(1)) @@ (17 :> JStr(""))
    @@ (52 :> JStr("0"))

field_defaults ==
  [f \in NumericDefaults |-> JInt(0)]
    @@ [f \in EmptyObjectDefaults |-> JStr("{}")]
    @@ [f \in EmptyArrayDefaults |-> JStr("[]")]
    @@ [f \in NotAvailableDefaults |-> JStr("N/A")]
    @@ (8 :> JStr("webhook")) @@ (14 :> JInt(1)) @@ (17 :> JStr(""))
    @@ (52 :> JStr("0"))

\* qb_record[k] = {'value': v}
Put(rec, k, v) == (k :> v) @@ rec

\* for field_id, default_value in field_defaults.items():
\*     if field_id not in qb_record: qb_record[field_id] = {'value': default_value}
\* a pass that writes every default, populated or not
ApplyDefaults_overwrite(rec) == field_defaults @@ rec

ApplyDefaults(rec) == rec @@ field_defaults

\* ---------------------------------------------------------------- documents
\* module sub-groups
ModA == JMap([id |-> JStr("A")])
ModB == JMap([id |-> JStr("B")])
ModLand == JMap([count |-> JInt(2), orientation |-> JStr("Landscape"),
                 name |-> JStr("Mod1"), id |-> JStr("A"), rating_stc |-> JInt(400)])
ModPort == JMap([count |-> JInt(1), orientation |-> JStr("portrait"),
                 name |-> JStr("Mod2"), id |-> JStr("B"), rating_stc |-> JInt(350)])
ModBadCount == JMap([count |-> JStr("abc"), orientation |-> JStr("LANDSCAPE-mixed"),
                     name |-> JNull, id |-> JStr("C")])
ModSouth == JMap([count |-> JStr("3"), orientation |-> JStr("south"),
                  name |-> JStr("Mod3"), id |-> JStr("D")])
\* microinverter sub-groups
MicroOne == JMap([count |-> JInt(2), id |-> JStr("mi1"), name |-> JStr("IQ8"),
                  rated_power |-> JInt(300)])
MicroNoId == JMap([count |-> JInt(1), name |-> JStr("IQ7")])
MicroTwo == JMap([count |-> JInt(1), id |-> JStr("mi2"), name |-> JStr("IQ9")])
\* dc_optimizer sub-groups
OptOne == JMap([count |-> JInt(3), id |-> JStr("op1"), name |-> JStr("P400")])
OptNoId == JMap([count |-> JInt(1), id |-> JStr(""), name |-> JStr("P300")])
OptTwo == JMap([count |-> JInt(2), id |-> JStr("op2")])
\* shading sub-records
Annual(n) == JMap([annual |-> JInt(n)])
ShadeAccess == JMap([solar_access |-> Annual(80)])
ShadeBoth == JMap([solar_access |-> Annual(91), total_solar_resource_fraction |-> Annual(70)])
ShadeTsrf == JMap([total_solar_resource_fraction |-> Annual(75)])
ShadeNull == JMap([solar_access |-> JNull])
\* a truthy value that is not a mapping
NotAMap == JStr("bad")

AGroups ==
  { JMap([module |-> ModA]),
    JMap([module |-> ModB]),
    JMap([module |-> ModLand, microinverter |-> MicroOne, shading |-> ShadeAccess]),
    JMap([module |-> ModPort, dc_optimizer |-> OptOne, shading |-> ShadeBoth]),
    NotAMap,
    JMap([module |-> ModLand, microinverter |-> NotAMap, dc_optimizer |-> OptTwo]),
    JMap([module |-> ModBadCount, microinverter |-> MicroNoId, shading |-> ShadeTsrf]),
    JMap([module |-> ModSouth, microinverter |-> MicroTwo, dc_optimizer |-> OptNoId,
          shading |-> ShadeNull]),
    JMap([dc_optimizer |-> OptTwo, module |-> NotAMap]) }

Line(ct, sku, qty) ==
  JMap([component_type |-> JStr(ct), sku |-> JStr(sku), manufacturer_name |-> JStr("Acme"),
        quantity |-> JInt(qty)])

BomLines ==
  { Line("modules", "S1", 10),
    JMap([component_type |-> JStr("Modules"), sku |-> JStr("S2")]),
    Line("inverters", "I1", 1),
    JMap([component_type |-> JStr("microinverters"), sku |-> JNull, quantity |-> JInt(2)]),
    Line("dc_optimizers", "O1", 3),
    Line("batteries", "B1", 1),
    Line("combiner_boxes", "c1", 2),
    Line("combiner_boxes", "c2", 3),
    Line("disconnects", "k1", 1),
    Line("disconnects", "k2", 2),
    Line("racking", "", 4),
    Line("Racking", "r2", 6),
    JMap([component_type |-> JStr("racking_components"), sku |-> JStr("r3"),
          quantity |-> JStr("6")]),
    Line("widgets", "w1", 5),
    JInt(7) }

SeqsUpTo(S, n) == UNION {[1..k -> S] : k \in 0..n}

Customer == JMap([first_name |-> JStr("Ada"), last_name |-> JStr("Lovelace")])
Energy ==
  JMap([annual |-> JInt(9000), annual_offset |-> JStr("85%"), up_to_date |-> JBool(TRUE),
        monthly |-> JList(<<JInt(700), JInt(800)>>)])
Inverter == JMap([name |-> JStr("SE7600"), id |-> JStr("inv1"), rated_power |-> JInt(7600)])

ArrayDoc(arrays) ==
  JMap([design |-> JMap([design_id |-> JStr("d1"), project_id |-> JStr("p1"),
                         system_size_stc |-> JInt(7200), system_size_ac |-> JInt(6005),
                         energy_production |-> Energy,
                         arrays |-> JList(arrays)]),
        project |-> JMap([customer |-> Customer])])

BomDoc(bom) ==
  JMap([design |-> JMap([design_id |-> JStr("d2"),
                         string_inverters |-> JList(<<Inverter>>),
                         bill_of_materials |-> JList(bom)])])

DesignOnly(design) == JMap([design |-> design])

\* a document with every part the builder serializes
FullDoc ==
  JMap([design |-> JMap([design_id |-> JStr("d4"), project_id |-> JStr("p4"),
                         energy_production |-> Energy,
                         arrays |-> JList(<<JMap([module |-> ModLand])>>),
                         string_inverters |-> JList(<<Inverter>>),
                         bill_of_materials |-> JList(<<Line("racking", "r1", 4)>>)]),
        project |-> JMap([customer |-> Customer])])

SpecialDocs ==
  { EmptyMap,
    FullDoc,
    DesignOnly(EmptyMap),
    DesignOnly(JNull),
    DesignOnly(NotAMap),
    DesignOnly(JMap([design_id |-> JStr(LongId), arrays |-> JInt(5)])),
    DesignOnly(JMap([design_id |-> JInt(7), string_inverters |-> JList(<<NotAMap>>)])),
    DesignOnly(JMap([design_id |-> JStr(LongId), bill_of_materials |-> JInt(5)])),
    DesignOnly(JMap([design_id |-> JNull, energy_production |-> NotAMap])),
    DesignOnly(JMap([design_id |-> JNull])),
    DesignOnly(JMap([design_id |-> JStr("{\"a\": [1, 2")])),
    JMap([design |-> JMap([design_id |-> JStr("d3")]), project |-> NotAMap]),
    JMap([design |-> JMap([design_id |-> JStr("d3")]),
          project |-> JMap([customer |-> NotAMap])]),
    JMap([design |-> JMap([design_id |-> JStr("d3"),
                           energy_production |-> JMap([annual_offset |-> JInt(85)])]),
          project |-> JMap([customer |-> JMap([company |-> JStr("Acme")])])]),
    JMap([design |-> JMap([design_id |-> JStr("d3")]),
          project |-> JMap([customer |-> JMap([name |-> JStr("Acme")])])]) }

Documents ==
  {ArrayDoc(a) : a \in SeqsUpTo(AGroups, MaxArrays)}
    \cup {BomDoc(b) : b \in SeqsUpTo(BomLines, MaxBom)}
    \cup SpecialDocs

\* documents whose serializations exceed the caps
LargeDocuments ==
  {ArrayDoc(<<g>>) : g \in AGroups} \cup {BomDoc(<<l>>) : l \in BomLines} \cup SpecialDocs

\* QUICKBASE_CONFIG['table_id']
TableId == "bvdzbdbe2"

\* len(json.dumps(...)) of the document's parts: the serializations are
\* represented by their lengths, below or above the caps of the code
SmallLens == [monthly |-> 120, arrays |-> 400, bom |-> 900, doc |-> 2500]
LargeLens == [monthly |-> 5001, arrays |-> 1001, bom |-> 10001, doc |-> 12000]

\* ---------------------------------------------------------------- state
VARIABLES
  design_data,   \* the argument of transform_data
  lens,          \* lengths of the json.dumps serializations of its parts
  pc,            \* position in transform_data / upsert_record
  idx,           \* position of the running for-loop (1-based)
  qb_record,     \* the record under construction
  tot,           \* running totals and first-seen selections of the arrays walk
  shade,         \* solar_access_sum, tsrf_sum, arrays_with_shading
  racking_qty,
  warnings,      \* units whose exception was caught and logged: <<loop, index>>
  exc,           \* message of the exception caught at the top level
  result,        \* what transform_data returned: a record, or "none"
  table_id,      \* QuickbaseClient.table_id
  data,          \* the argument of upsert_record
  body,          \* the body of the request upsert_record sends
  posts,         \* number of POST requests issued
  response,      \* the response to the request
  ret            \* what upsert_record returned

tvars == <<design_data, lens, pc, idx, qb_record, tot, shade, racking_qty,
           warnings, exc, result>>
tvars_but_pc == <<design_data, lens, idx, qb_record, tot, shade, racking_qty,
                  warnings, exc, result>>
uvars == <<table_id, data, body, posts, response, ret>>
vars == <<design_data, lens, pc, idx, qb_record, tot, shade, racking_qty,
          warnings, exc, result, table_id, data, body, posts, response, ret>>

design == Get(design_data, "design", EmptyMap)
project == Get(design_data, "project", EmptyMap)
arrays == Get(design, "arrays", EmptyList)
string_inverters == Get(design, "string_inverters", EmptyList)
bom == Get(design, "bill_of_materials", EmptyList)

Tot0 ==
  [total_modules |-> 0, portrait_count |-> 0, landscape_count |-> 0,
   total_dc_optimizers |-> 0, total_microinverters |-> 0,
   first_module_name |-> JStr(""), first_module_id |-> JStr(""),
   first_module_rating |-> JInt(0),
   first_dc_optimizer_id |-> JStr(""), first_dc_optimizer_name |-> JStr(""),
   first_microinverter_id |-> JStr(""), first_microinverter_name |-> JStr("")]

Shade0 == [solar_access_sum |-> 0, tsrf_sum |-> 0, arrays_with_shading |-> 0]

NoResult == [kind |-> "none", rec |-> <<>>]

Unset == [t |-> "unset", v |-> 0]
NoBody == [to |-> "", data |-> <<>>, mergeFieldId |-> 0]
NoResponse == [status |-> 0, data |-> "absent"]

Init ==
  /\ \/ design_data \in Documents /\ lens = SmallLens /\ table_id = TableId
     \/ design_data \in LargeDocuments /\ lens = LargeLens /\ table_id \in {TableId, ""}
  /\ data = <<>>
  /\ body = NoBody
  /\ posts = 0
  /\ response = NoResponse
  /\ ret = Unset
  /\ pc = "core"
  /\ idx = 0
  /\ qb_record = <<>>
  /\ tot = Tot0
  /\ shade = Shade0
  /\ racking_qty = 0
  /\ warnings = {}
  /\ exc = ""
  /\ result = NoResult

\* raise inside the outer try: control passes to the except clause
Raise(msg) ==
  /\ pc' = "except"
  /\ exc' = msg
  /\ UNCHANGED <<design_data, lens, idx, qb_record, tot, shade, racking_qty,
                 warnings, result>>

NoAttrGet == "object has no attribute 'get'"
NoLen == "object has no len()"

\* ------------------------------------------------ core, customer, energy
\* lines 350-363
CustomerName ==
  IF Truthy(project)
  THEN LET customer == Get(project, "customer", EmptyMap)
       IN IF Truthy(customer)
          THEN LET first_name == safe_string_value(Get(customer, "first_name", JStr("")),
                                                   JStr(""), 1000)
                   last_name == safe_string_value(Get(customer, "last_name", JStr("")),
                                                  JStr(""), 1000)
                   customer_name == FullName(first_name.v, last_name.v)
               IN IF customer_name = ""
                  THEN safe_string_value(Get(customer, "name", JStr("")), JStr("N/A"), 1000)
                  ELSE JStr(customer_name)
          ELSE JStr("N/A")
  ELSE JStr("N/A")

\* the .get calls of lines 350-381 that meet a value that is not a dict
CoreRaises ==
  \/ ~HasGet(design)
  \/ /\ Truthy(project)
     /\ \/ ~HasGet(project)
        \/ LET customer == Get(project, "customer", EmptyMap)
           IN Truthy(customer) /\ ~HasGet(customer)
  \/ LET energy == Get(design, "energy_production", EmptyMap)
     IN Truthy(energy) /\ ~HasGet(energy)

\* lines 365-381
EnergyFields(rec) ==
  LET energy == Get(design, "energy_production", EmptyMap)
  IN IF Truthy(energy)
     THEN LET raw == Get(energy, "annual_offset", JInt(0))
              annual_offset == IF raw.t = "str" THEN JStr(StripPercent(raw.v)) ELSE raw
              monthly == Get(energy, "monthly", JNull)
              r1 == Put(rec, 51, safe_numeric_value(Get(energy, "annual", JInt(0)), JInt(0)))
              r2 == Put(r1, 52, safe_string_value(annual_offset, JStr("0"), 1000))
              r3 == Put(r2, 45, JBool(Truthy(Get(energy, "up_to_date", JBool(FALSE)))))
          IN IF Truthy(monthly)
             THEN Put(r3, 53, JText("monthly", IF lens.monthly > 5000 THEN 5000
                                               ELSE lens.monthly, lens.monthly))
             ELSE r3
     ELSE rec

\* lines 334-381
BuildCore ==
  /\ pc = "core"
  /\ UNCHANGED uvars
  /\ IF CoreRaises
     THEN Raise(NoAttrGet)
     ELSE /\ \E dc \in Round2(Num(safe_numeric_value(Get(design, "system_size_stc", JInt(0)),
                                                      JInt(0))), 1000),
                ac \in Round2(Num(safe_numeric_value(Get(design, "system_size_ac", JInt(0)),
                                                      JInt(0))), 1000) :
               qb_record' = EnergyFields(
                 (6 :> safe_string_value(Get(design, "design_id", JStr("")), JStr("N/A"), 1000))
                 @@ (7 :> safe_string_value(Get(design, "project_id", JStr("")), JStr("N/A"), 1000))
                 @@ (21 :> JDec2(dc)) @@ (22 :> JDec2(ac))
                 @@ (16 :> JStr("Installed")) @@ (17 :> JStr("Completed"))
                 @@ (18 :> JStr("Installed"))
                 @@ (91 :> CustomerName))
          /\ pc' = "arrays"
          /\ UNCHANGED <<design_data, lens, idx, tot, shade, racking_qty, warnings,
                         exc, result>>

\* ------------------------------------------------ arrays walk
\* lines 384-403
ArraysBegin ==
  /\ pc = "arrays"
  /\ UNCHANGED uvars
  /\ IF Truthy(arrays)
     THEN IF ~HasLen(arrays)
          THEN Raise(NoLen)
          ELSE /\ qb_record' = Put(qb_record, 19, JInt(PyLen(arrays)))
               /\ pc' = "array_loop"
               /\ idx' = 1
               /\ UNCHANGED <<design_data, lens, tot, shade, racking_qty, warnings,
                              exc, result>>
     ELSE /\ pc' = "inverters"
          /\ UNCHANGED <<design_data, lens, idx, qb_record, tot, shade, racking_qty,
                         warnings, exc, result>>

\* a loop body's state: locals, record, and whether an exception left it
Body(t, rec, raised) == [tot |-> t, rec |-> rec, raised |-> raised]

\* an orientation test without the portrait default of line 417
Orientation_no_default(s, count) ==
  LET orientation == Lower(safe_string_value(Get(s, "orientation", JStr("")), JStr(""), 1000).v)
  IN IF ContainsLandscape(orientation)
     THEN [landscape |-> count, portrait |-> 0]
     ELSE IF orientation = "portrait"
     THEN [landscape |-> 0, portrait |-> count]
     ELSE [landscape |-> 0, portrait |-> 0]

\* lines 413-417
Orientation(s, count) ==
  LET orientation == Lower(safe_string_value(Get(s, "orientation", JStr("")), JStr(""), 1000).v)
  IN IF ContainsLandscape(orientation)
     THEN [landscape |-> count, portrait |-> 0]
     ELSE [landscape |-> 0, portrait |-> count]

\* lines 407-423
ModulePart(b, array) ==
  LET module == Get(array, "module", EmptyMap)
  IN IF ~Truthy(module) THEN b
     ELSE IF ~HasGet(module) THEN Body(b.tot, b.rec, TRUE)
     ELSE
       LET count == Num(safe_numeric_value(Get(module, "count", JInt(0)), JInt(0)))
           o == Orientation(module, count)
           t1 == [b.tot EXCEPT !.total_modules = @ + count,
                               !.landscape_count = @ + o.landscape,
                               !.portrait_count = @ + o.portrait]
           t2 == IF ~Truthy(t1.first_module_name)
                 THEN [t1 EXCEPT
                         !.first_module_name =
                            safe_string_value(Get(module, "name", JStr("")), JStr("N/A"), 1000),
                         !.first_module_id =
                            safe_string_value(Get(module, "id", JStr("")), JStr("N/A"), 1000),
                         !.first_module_rating =
                            safe_numeric_value(Get(module, "rating_stc", JInt(0)), JInt(0))]
                 ELSE t1
       IN Body(t2, b.rec, FALSE)

\* lines 425-436
MicroPart(b, array) ==
  LET microinverter == Get(array, "microinverter", EmptyMap)
  IN IF ~Truthy(microinverter) THEN b
     ELSE IF ~HasGet(microinverter) THEN Body(b.tot, b.rec, TRUE)
     ELSE
       LET micro_count == Num(safe_numeric_value(Get(microinverter, "count", JInt(0)), JInt(0)))
           t1 == [b.tot EXCEPT !.total_microinverters = @ + micro_count]
           id == safe_string_value(Get(microinverter, "id", JStr("")), JStr("N/A"), 1000)
           name == safe_string_value(Get(microinverter, "name", JStr("")), JStr("N/A"), 1000)
       IN IF ~Truthy(t1.first_microinverter_id)
          THEN Body([t1 EXCEPT !.first_microinverter_id = id,
                               !.first_microinverter_name = name],
                    Put(Put(Put(b.rec, 57, id), 58, name), 60,
                        safe_numeric_value(Get(microinverter, "rated_power", JInt(0)), JInt(0))),
                    FALSE)
          ELSE Body(t1, b.rec, FALSE)

\* lines 438-448
OptimizerPart(b, array) ==
  LET dc_optimizer == Get(array, "dc_optimizer", EmptyMap)
  IN IF ~Truthy(dc_optimizer) THEN b
     ELSE IF ~HasGet(dc_optimizer) THEN Body(b.tot, b.rec, TRUE)
     ELSE
       LET dc_count == Num(safe_numeric_value(Get(dc_optimizer, "count", JInt(0)), JInt(0)))
           t1 == [b.tot EXCEPT !.total_dc_optimizers = @ + dc_count]
           id == safe_string_value(Get(dc_optimizer, "id", JStr("")), JStr("N/A"), 1000)
           name == safe_string_value(Get(dc_optimizer, "name", JStr("")), JStr("N/A"), 1000)
       IN IF ~Truthy(t1.first_dc_optimizer_id)
          THEN Body([t1 EXCEPT !.first_dc_optimizer_id = id,
                               !.first_dc_optimizer_name = name],
                    Put(Put(b.rec, 63, id), 64, name), FALSE)
          ELSE Body(t1, b.rec, FALSE)

\* lines 406-448: the statements of one iteration, up to the first exception
ArrayBody(t, rec, array) ==
  IF ~HasGet(array) THEN Body(t, rec, TRUE)
  ELSE LET b1 == ModulePart(Body(t, rec, FALSE), array)
       IN IF b1.raised THEN b1
          ELSE LET b2 == MicroPart(b1, array)
               IN IF b2.raised THEN b2 ELSE OptimizerPart(b2, array)

\* a loop without its own try/except: the exception reaches the outer handler
UnitHandler_reraise == "raise"

\* lines 450-452, 564-566 and 498-500: `except Exception: ... continue`
UnitHandler == "continue"

\* where a loop goes after an iteration
AfterUnit(raised, loop) ==
  IF raised /\ UnitHandler # "continue"
  THEN /\ pc' = "except"
       /\ exc' = NoAttrGet
       /\ UNCHANGED <<idx, warnings>>
  ELSE /\ pc' = loop
       /\ idx' = idx + 1
       /\ warnings' = IF raised THEN warnings \cup {<<loop, idx>>} ELSE warnings
       /\ exc' = exc

\* lines 405-452, one iteration
ArrayIter ==
  /\ pc = "array_loop"
  /\ UNCHANGED uvars
  /\ idx <= Len(Items(arrays))
  /\ LET b == ArrayBody(tot, qb_record, Items(arrays)[idx])
     IN /\ tot' = b.tot
        /\ qb_record' = b.rec
        /\ AfterUnit(b.raised, "array_loop")
  /\ UNCHANGED <<design_data, lens, shade, racking_qty, result>>

\* lines 454-483
ArraysTotals ==
  /\ pc = "array_loop"
  /\ UNCHANGED uvars
  /\ idx > Len(Items(arrays))
  /\ LET r1 == Put(Put(Put(Put(qb_record, 46, tot.first_module_name),
                           61, tot.first_module_id),
                       62, tot.first_module_rating),
                   47, tot.first_module_rating)
         r2 == Put(Put(Put(Put(r1, 20, JInt(tot.total_modules)),
                           30, JInt(tot.total_modules)),
                       23, JInt(tot.portrait_count)),
                   24, JInt(tot.landscape_count))
         r3 == IF tot.total_dc_optimizers > 0
               THEN Put(Put(r2, 26, JInt(tot.total_dc_optimizers)),
                        71, JInt(tot.total_dc_optimizers))
               ELSE r2
         r4 == IF tot.total_microinverters > 0
               THEN Put(Put(r3, 27, JInt(tot.total_microinverters)),
                        59, JInt(tot.total_microinverters))
               ELSE r3
     IN qb_record' = r4
  /\ shade' = Shade0
  /\ pc' = "shading_loop"
  /\ idx' = 1
  /\ UNCHANGED <<design_data, lens, tot, racking_qty, warnings, exc, result>>

\* lines 486-497: the statements of one iteration, up to the first exception
ShadingBody(sh, array) ==
  IF ~HasGet(array) THEN [shade |-> sh, raised |-> TRUE]
  ELSE
    LET shading == Get(array, "shading", EmptyMap)
    IN IF ~Truthy(shading) THEN [shade |-> sh, raised |-> FALSE]
       ELSE IF ~HasGet(shading) THEN [shade |-> sh, raised |-> TRUE]
       ELSE
         LET access == Get(shading, "solar_access", EmptyMap)
             fraction == Get(shading, "total_solar_resource_fraction", EmptyMap)
         IN IF ~HasGet(access) \/ ~HasGet(fraction) THEN [shade |-> sh, raised |-> TRUE]
            ELSE
              LET solar_access == Get(access, "annual", JNull)
                  tsrf == Get(fraction, "annual", JNull)
                  s1 == IF solar_access.t # "null"
                        THEN [sh EXCEPT
                                !.solar_access_sum =
                                   @ + Num(safe_numeric_value(solar_access, JInt(0))),
                                !.arrays_with_shading = @ + 1]
                        ELSE sh
                  s2 == IF tsrf.t # "null"
                        THEN [s1 EXCEPT
                                !.tsrf_sum = @ + Num(safe_numeric_value(tsrf, JInt(0)))]
                        ELSE s1
              IN [shade |-> s2, raised |-> FALSE]

\* lines 485-500, one iteration
ShadingIter ==
  /\ pc = "shading_loop"
  /\ UNCHANGED uvars
  /\ idx <= Len(Items(arrays))
  /\ LET b == ShadingBody(shade, Items(arrays)[idx])
     IN /\ shade' = b.shade
        /\ AfterUnit(b.raised, "shading_loop")
  /\ UNCHANGED <<design_data, lens, qb_record, tot, racking_qty, result>>

\* json.dumps(x) stored without the slice
Dumps_uncut(src, full, cap) == JText(src, full, full)

\* json.dumps(x)[:cap]
Dumps(src, full, cap) == JText(src, IF full > cap THEN cap ELSE full, full)

\* lines 502-504
ShadingMeans(sh) ==
  IF sh.arrays_with_shading > 0
  THEN {[access |-> a, tsrf |-> f] :
          a \in Round2(sh.solar_access_sum, sh.arrays_with_shading),
          f \in Round2(sh.tsrf_sum, sh.arrays_with_shading)}
  ELSE {}

\* lines 502-512
ShadingFinish ==
  /\ pc = "shading_loop"
  /\ UNCHANGED uvars
  /\ idx > Len(Items(arrays))
  /\ IF ShadingMeans(shade) # {}
     THEN \E m \in ShadingMeans(shade) :
            qb_record' = Put(Put(Put(qb_record, 65, JDec2(m.access)), 67, JDec2(m.tsrf)),
                             29, Dumps("arrays", lens.arrays, 1000))
     ELSE qb_record' = Put(qb_record, 29, Dumps("arrays", lens.arrays, 1000))
  /\ pc' = "inverters"
  /\ UNCHANGED <<design_data, lens, idx, tot, shade, racking_qty, warnings, exc, result>>

\* ------------------------------------------------ string inverters
\* lines 515-522
StringInverters ==
  /\ pc = "inverters"
  /\ UNCHANGED uvars
  /\ IF Truthy(string_inverters)
     THEN IF ~HasLen(string_inverters)
          THEN Raise(NoLen)
          ELSE LET inv == Items(string_inverters)[1]
               IN IF ~HasGet(inv)
                  THEN Raise(NoAttrGet)
                  ELSE /\ qb_record' =
                            Put(Put(Put(Put(Put(qb_record,
                              25, JInt(PyLen(string_inverters))),
                              48, safe_string_value(Get(inv, "name", JStr("")), JStr("N/A"), 1000)),
                              54, safe_string_value(Get(inv, "id", JStr("")), JStr("N/A"), 1000)),
                              56, safe_numeric_value(Get(inv, "rated_power", JInt(0)), JInt(0))),
                              69, safe_string_value(Get(inv, "manufacturer", JStr("")),
                                                    JStr("N/A"), 1000))
                       /\ pc' = "bom"
                       /\ UNCHANGED <<design_data, lens, idx, tot, shade, racking_qty,
                                      warnings, exc, result>>
     ELSE /\ pc' = "bom"
          /\ UNCHANGED <<design_data, lens, idx, qb_record, tot, shade, racking_qty,
                         warnings, exc, result>>

\* ------------------------------------------------ bill of materials
\* lines 525-530
BomBegin ==
  /\ pc = "bom"
  /\ UNCHANGED uvars
  /\ IF Truthy(bom)
     THEN IF ~HasLen(bom)
          THEN Raise(NoLen)
          ELSE /\ qb_record' = Put(qb_record, 44, JInt(PyLen(bom)))
               /\ racking_qty' = 0
               /\ pc' = "bom_loop"
               /\ idx' = 1
               /\ UNCHANGED <<design_data, lens, tot, shade, warnings, exc, result>>
     ELSE /\ pc' = "finish"
          /\ UNCHANGED <<design_data, lens, idx, qb_record, tot, shade, racking_qty,
                         warnings, exc, result>>

\* a racking guard that tests the stored SKU text instead of the stored entry
RackingSku_truthy(rec, sku) ==
  IF 84 \in DOMAIN rec /\ Truthy(rec[84]) THEN rec ELSE Put(rec, 84, sku)

\* a racking branch that assigns the SKU on every line
RackingSku_overwrite(rec, sku) == Put(rec, 84, sku)

\* lines 561-562: if not qb_record.get(84): qb_record[84] = {'value': sku}
RackingSku(rec, sku) == IF 84 \in DOMAIN rec THEN rec ELSE Put(rec, 84, sku)

\* lines 534-562: one line item
BomBody(rq, rec, item) ==
  IF ~HasGet(item) THEN [racking_qty |-> rq, rec |-> rec, raised |-> TRUE]
  ELSE
    LET ct == Lower(safe_string_value(Get(item, "component_type", JStr("")),
                                      JStr("N/A"), 1000).v)
        sku == safe_string_value(Get(item, "sku", JStr("")), JStr("N/A"), 1000)
        mfg == safe_string_value(Get(item, "manufacturer_name", JStr("")), JStr("N/A"), 1000)
        qty == safe_numeric_value(Get(item, "quantity", JInt(0)), JInt(0))
        keep(r) == [racking_qty |-> rq, rec |-> r, raised |-> FALSE]
    IN CASE ct = "modules" -> keep(Put(Put(rec, 80, sku), 68, mfg))
         [] ct = "inverters" -> keep(Put(Put(rec, 81, sku), 69, mfg))
         [] ct = "microinverters" -> keep(Put(Put(rec, 83, sku), 72, mfg))
         [] ct = "dc_optimizers" -> keep(Put(Put(rec, 82, sku), 70, mfg))
         [] ct = "batteries" -> keep(Put(rec, 85, sku))
         [] ct = "combiner_boxes" -> keep(Put(Put(rec, 86, sku), 36, qty))
         [] ct = "disconnects" -> keep(Put(Put(rec, 87, sku), 37, qty))
         [] ct \in {"racking_components", "racking"} ->
              [racking_qty |-> rq + Num(qty), rec |-> RackingSku(rec, sku), raised |-> FALSE]
         [] OTHER -> keep(rec)

\* lines 532-566, one iteration
BomIter ==
  /\ pc = "bom_loop"
  /\ UNCHANGED uvars
  /\ idx <= Len(Items(bom))
  /\ LET b == BomBody(racking_qty, qb_record, Items(bom)[idx])
     IN /\ racking_qty' = b.racking_qty
        /\ qb_record' = b.rec
        /\ AfterUnit(b.raised, "bom_loop")
  /\ UNCHANGED <<design_data, lens, tot, shade, result>>

\* lines 568-578
BomFinish ==
  /\ pc = "bom_loop"
  /\ UNCHANGED uvars
  /\ idx > Len(Items(bom))
  /\ qb_record' = Put(IF racking_qty > 0 THEN Put(qb_record, 32, JInt(racking_qty))
                      ELSE qb_record,
                      73, Dumps("bom", lens.bom, 10000))
  /\ pc' = "finish"
  /\ UNCHANGED <<design_data, lens, idx, tot, shade, racking_qty, warnings, exc, result>>

\* ------------------------------------------------ snapshots, defaults, return
\* lines 588-593
MlpeType ==
  IF tot.total_dc_optimizers > 0 THEN JStr("DC Optimizer")
  ELSE IF tot.total_microinverters > 0 THEN JStr("Microinverter")
  ELSE JStr("N/A")

\* lines 580-595: the document snapshot and the MLPE type
Finish ==
  /\ pc = "finish"
  /\ UNCHANGED uvars
  /\ qb_record' = Put(Put(Put(qb_record,
                              10, Dumps("doc", lens.doc, 10000)),
                              28, MlpeType),
                              49, MlpeType)
  /\ pc' = "defaults"
  /\ UNCHANGED <<design_data, lens, idx, tot, shade, racking_qty, warnings, exc, result>>

\* lines 597-676: the defaulting pass and the return
Defaults ==
  /\ pc = "defaults"
  /\ UNCHANGED uvars
  /\ qb_record' = ApplyDefaults(qb_record)
  /\ result' = [kind |-> "record", rec |-> qb_record']
  /\ pc' = "returned"
  /\ UNCHANGED <<design_data, lens, idx, tot, shade, racking_qty, warnings, exc>>

\* lines 678-684: the except clause of the outer try
Except ==
  /\ pc = "except"
  /\ UNCHANGED uvars
  /\ IF ~HasGet(design)
     THEN \* design_data.get('design', {}).get(...) raises inside the handler
          /\ result' = [kind |-> "raised", rec |-> <<>>]
          /\ pc' = "propagated"
     ELSE /\ result' = [kind |-> "fallback",
                        rec |-> (6 :> safe_string_value(Get(design, "design_id", JStr("ERROR")),
                                                        JStr("N/A"), 1000))
                                @@ (17 :> JStr("Transform error: " \o exc))]
          /\ pc' = "returned"
  /\ UNCHANGED <<design_data, lens, idx, qb_record, tot, shade, racking_qty, warnings, exc>>

\* ---------------------------------------------------------------- upsert
\* len(value) of a str
TextLen(x) == IF x.t = "json" THEN x.v.n ELSE StrLen(x.v)

\* value[:n]
TextSlice(x, n) ==
  IF x.t = "json" THEN JText(x.v.src, IF x.v.n > n THEN n ELSE x.v.n, x.v.full)
  ELSE JStr(Slice(x.v, n))

\* value.startswith(c)
StartsWith(x, c) ==
  IF x.t = "json" THEN x.v.n > 0 /\ c = (IF x.v.src = "doc" THEN "{" ELSE "[")
  ELSE \/ x.v \in {"{}", "{\"a\": [1, 2"} /\ c = "{"
       \/ x.v \in {"[]", "[abc", "[1, 2]"} /\ c = "["

\* json.loads(value) does not raise: the text is a whole serialization
Parses(x) ==
  IF x.t = "json" THEN x.v.n = x.v.full ELSE x.v \in {"{}", "[]", "[1, 2]"}

\* a validator without the registry test
ValidField_any(field_id) == TRUE

\* line 168
ValidField(field_id) == field_id \in VALID_FIELDS

\* a cleaner that cuts but forwards whatever text is left
CleanText_forward(value) ==
  IF TextLen(value) > 10000 THEN TextSlice(value, 10000) ELSE value

\* lines 179-191
CleanText(value) ==
  LET v1 == IF TextLen(value) > 10000 THEN TextSlice(value, 10000) ELSE value
  IN IF StartsWith(v1, "{") \/ StartsWith(v1, "[")
     THEN IF Parses(v1) THEN v1
          ELSE IF StartsWith(v1, "{") THEN JStr("{}") ELSE JStr("[]")
     ELSE v1

\* lines 162-201; the numbers of the model are never NaN, so lines 194-197
\* leave them as they are
validate_field_data(d) ==
  [field_id \in {k \in DOMAIN d : ValidField(k) /\ d[k].t # "null"} |->
     IF d[field_id].t \in {"str", "json"} THEN CleanText(d[field_id]) ELSE d[field_id]]

\* records a caller hands to upsert_record: the transformed record, possibly
\* carrying identifiers outside the registry or null values
UnknownFields == (76 :> JInt(1)) @@ (88 :> JStr("x")) @@ (9 :> JNull)
\* text values a caller may hand in: whole and broken JSON texts, and a whole
\* JSON text longer than the limit of line 180
EmbeddedTexts ==
  (61 :> JStr("[1, 2]")) @@ (62 :> JStr("[abc")) @@ (63 :> JStr("{\"a\": [1, 2"))
  @@ (64 :> JText("bom", 10001, 10001))
UpsertInputs(rec) ==
  {rec, UnknownFields @@ rec, EmbeddedTexts @@ rec, (76 :> JInt(1)) @@ (9 :> JNull)}

\* lines 214-240
UpsertCall ==
  /\ pc = "returned"
  /\ \E d \in UpsertInputs(result.rec) :
       /\ data' = d
       /\ IF table_id = ""
          THEN /\ ret' = JBool(FALSE)
               /\ pc' = "done"
               /\ body' = body
          ELSE LET cleaned_data == validate_field_data(d)
               IN IF DOMAIN cleaned_data = {}
                  THEN /\ ret' = JBool(FALSE)
                       /\ pc' = "done"
                       /\ body' = body
                  ELSE /\ body' = [to |-> table_id, data |-> <<cleaned_data>>,
                                   mergeFieldId |-> 6]
                       /\ pc' = "post"
                       /\ ret' = ret
  /\ UNCHANGED <<posts, response, table_id>>
  /\ UNCHANGED tvars_but_pc

\* what the remote service may answer; status 0 stands for requests.post raising
Responses ==
  {[status |-> s, data |-> d] : s \in {200, 207}, d \in {"absent", "empty", "row"}}
    \cup {[status |-> s, data |-> "absent"] : s \in {0, 201, 400, 500}}

\* line 243
Post ==
  /\ pc = "post"
  /\ posts' = posts + 1
  /\ response' \in Responses
  /\ pc' = "response"
  /\ UNCHANGED <<table_id, data, body, ret>>
  /\ UNCHANGED tvars_but_pc

\* lines 258 and 271: 'data' in result and len(result['data']) > 0
HasRow(r) == r.data = "row"

\* lines 244-302: the value upsert_record returns for a response
Returned(r) ==
  IF r.status = 0 THEN JBool(FALSE)                      \* except Exception
  ELSE IF r.status \in {200, 207} THEN JBool(HasRow(r))
  ELSE IF r.status >= 400 /\ r.status < 600 THEN JBool(FALSE)  \* raise_for_status
  ELSE JNull                                             \* falls off the end

\* a client that posts again after a failure
AfterResponse_retry(r) ==
  IF Returned(r) # JBool(TRUE) /\ posts < 3 THEN "post" ELSE "done"

\* lines 242-302: after the response no further request is made
AfterResponse(r) == "done"

HandleResponse ==
  /\ pc = "response"
  /\ LET next == AfterResponse(response)
     IN /\ pc' = next
        /\ ret' = IF next = "done" THEN Returned(response) ELSE ret
  /\ UNCHANGED <<table_id, data, body, posts, response>>
  /\ UNCHANGED tvars_but_pc

Next ==
  \/ BuildCore \/ ArraysBegin \/ ArrayIter \/ ArraysTotals \/ ShadingIter
  \/ ShadingFinish \/ StringInverters \/ BomBegin \/ BomIter \/ BomFinish
  \/ Finish \/ Defaults \/ Except
  \/ UpsertCall \/ Post \/ HandleResponse

Spec == Init /\ [][Next]_vars

\* ---------------------------------------------------------------- properties
rec == result.rec
Groups == IF HasGet(design) THEN Items(arrays) ELSE <<>>
Lines == IF HasGet(design) THEN Items(bom) ELSE <<>>

RECURSIVE SumTo(_, _)
SumTo(vals, n) == IF n = 0 THEN 0 ELSE vals[n] + SumTo(vals, n - 1)
Total(vals) == SumTo(vals, Len(vals))

\* the first position of seq that satisfies P, 0 when there is none
FirstIdx(seq, P(_)) ==
  IF \E i \in 1..Len(seq) : P(seq[i])
  THEN CHOOSE i \in 1..Len(seq) : P(seq[i]) /\ \A j \in 1..(i - 1) : ~P(seq[j])
  ELSE 0

\* which sub-groups of an array group the walk reaches and reads
ModuleOf(g) == Get(g, "module", EmptyMap)
MicroOf(g) == Get(g, "microinverter", EmptyMap)
OptimizerOf(g) == Get(g, "dc_optimizer", EmptyMap)
ModuleRuns(g) == HasGet(g) /\ Truthy(ModuleOf(g)) /\ HasGet(ModuleOf(g))
ModuleFails(g) == HasGet(g) /\ Truthy(ModuleOf(g)) /\ ~HasGet(ModuleOf(g))
MicroRuns(g) == HasGet(g) /\ ~ModuleFails(g) /\ Truthy(MicroOf(g)) /\ HasGet(MicroOf(g))
MicroFails(g) == HasGet(g) /\ ~ModuleFails(g) /\ Truthy(MicroOf(g)) /\ ~HasGet(MicroOf(g))
OptimizerRuns(g) ==
  /\ HasGet(g) /\ ~ModuleFails(g) /\ ~MicroFails(g)
  /\ Truthy(OptimizerOf(g)) /\ HasGet(OptimizerOf(g))
CountOf(m) == Num(safe_numeric_value(Get(m, "count", JInt(0)), JInt(0)))
Text(m, key) == safe_string_value(Get(m, key, JStr("")), JStr("N/A"), 1000)
Number(m, key) == safe_numeric_value(Get(m, key, JInt(0)), JInt(0))

ModuleSum == Total([i \in 1..Len(Groups) |->
                      IF ModuleRuns(Groups[i]) THEN CountOf(ModuleOf(Groups[i])) ELSE 0])
MicroSum == Total([i \in 1..Len(Groups) |->
                     IF MicroRuns(Groups[i]) THEN CountOf(MicroOf(Groups[i])) ELSE 0])
OptimizerSum == Total([i \in 1..Len(Groups) |->
                         IF OptimizerRuns(Groups[i]) THEN CountOf(OptimizerOf(Groups[i])) ELSE 0])

\* bill-of-materials lines by category
KnownCategories ==
  {"modules", "inverters", "microinverters", "dc_optimizers", "batteries",
   "combiner_boxes", "disconnects", "racking"}
SkuField ==
  [modules |-> 80, inverters |-> 81, microinverters |-> 83, dc_optimizers |-> 82,
   batteries |-> 85, combiner_boxes |-> 86, disconnects |-> 87, racking |-> 84]
QtyField == [combiner_boxes |-> 36, disconnects |-> 37, racking |-> 32]
CategoryOf(item) ==
  IF ~HasGet(item) THEN "none"
  ELSE LET ct == Lower(Text(item, "component_type").v)
       IN IF ct = "racking_components" THEN "racking" ELSE ct
SkuOf(item) == Text(item, "sku")
QtyOf(item) == Number(item, "quantity")
LinesOf(c) == {i \in 1..Len(Lines) : CategoryOf(Lines[i]) = c}
FirstOf(c) == CHOOSE i \in LinesOf(c) : \A j \in LinesOf(c) : i <= j
LastOf(c) == CHOOSE i \in LinesOf(c) : \A j \in LinesOf(c) : j <= i
QtySum(c) == Total([i \in 1..Len(Lines) |->
                      IF i \in LinesOf(c) THEN Num(QtyOf(Lines[i])) ELSE 0])

\* the document has a defect outside the array and line loops
TopLevelDefect ==
  \/ CoreRaises
  \/ Truthy(arrays) /\ ~HasLen(arrays)
  \/ Truthy(string_inverters)
       /\ (~HasLen(string_inverters) \/ ~HasGet(Items(string_inverters)[1]))
  \/ Truthy(bom) /\ ~HasLen(bom)

\* identifiers of the registry that neither the builder nor the defaults set
NeverWritten == {1, 2, 3, 4, 5, 9}

\* C1 (as stated): on a normal return every identifier of VALID_FIELDS is a
\* key of the returned record.
C1_TotalOverRegistry ==
  result.kind = "record" => VALID_FIELDS \subseteq DOMAIN rec

\* C1 (amended): on a normal return the keys of the record are exactly the
\* identifiers of VALID_FIELDS other than 1, 2, 3, 4, 5, 9 and 45, together
\* with 45 when the document has a non-empty energy_production mapping.
C1_TotalOverDefaults ==
  result.kind = "record" =>
    DOMAIN rec = (VALID_FIELDS \ (NeverWritten \cup {45}))
                   \cup (IF Truthy(Get(design, "energy_production", EmptyMap))
                         THEN {45} ELSE {})

\* C1 witness: the empty document comes back with the defaults filled in
C1_Witness ==
  /\ result.kind = "record"
  /\ design_data = EmptyMap
  /\ 75 \in DOMAIN rec
  /\ 45 \notin DOMAIN rec

\* C2: a top-level error yields the two-field record {6, 17} and no exception
\* leaves transform_data, also when 'design' is null or not a mapping.
C2_FallbackNeverPropagates ==
  (exc # "" /\ pc # "except") =>
    /\ result.kind = "fallback"
    /\ DOMAIN rec = {6, 17}

\* C3: an error in one array group or one line is caught in the loop: the
\* other units still count towards the totals and the full defaulted record
\* is returned unless the document has a defect outside the loops.
C3_UnitErrorsSkipped ==
  (result.kind # "none" /\ ~TopLevelDefect) =>
    /\ result.kind = "record"
    /\ DOMAIN field_defaults \subseteq DOMAIN rec
    /\ rec[19] = JInt(Len(Groups))
    /\ rec[20] = JInt(ModuleSum)
    /\ rec[27] = JInt(MicroSum)
    /\ rec[26] = JInt(OptimizerSum)
    /\ rec[44] = JInt(Len(Lines))
    /\ rec[32] = JInt(QtySum("racking"))

\* C3 witness: a group raised, a later group was counted, the record is full
C3_Witness ==
  /\ result.kind = "record"
  /\ \E i, j \in 1..Len(Groups) :
       /\ i < j
       /\ <<"array_loop", i>> \in warnings
       /\ <<"array_loop", j>> \notin warnings
       /\ ModuleRuns(Groups[j])
       /\ CountOf(ModuleOf(Groups[j])) > 0
  /\ rec[20].v > 0
  /\ 75 \in DOMAIN rec

\* C4: the primary module, microinverter and DC-optimizer fields hold the
\* values of the first array group that carries the sub-group.
C4_FirstEncounteredWins ==
  result.kind = "record" =>
    /\ LET i == FirstIdx(Groups, ModuleRuns)
       IN i > 0 => /\ rec[61] = Text(ModuleOf(Groups[i]), "id")
                   /\ rec[46] = Text(ModuleOf(Groups[i]), "name")
                   /\ rec[62] = Number(ModuleOf(Groups[i]), "rating_stc")
    /\ LET i == FirstIdx(Groups, MicroRuns)
       IN i > 0 => /\ rec[57] = Text(MicroOf(Groups[i]), "id")
                   /\ rec[58] = Text(MicroOf(Groups[i]), "name")
                   /\ rec[60] = Number(MicroOf(Groups[i]), "rated_power")
    /\ LET i == FirstIdx(Groups, OptimizerRuns)
       IN i > 0 => /\ rec[63] = Text(OptimizerOf(Groups[i]), "id")
                   /\ rec[64] = Text(OptimizerOf(Groups[i]), "name")

\* C5: the record in the request body carries only identifiers of
\* VALID_FIELDS, and an unknown identifier does not stop the valid fields of
\* the same record from being dispatched.
C5_OnlyRegisteredFieldsDispatched ==
  /\ body # NoBody => DOMAIN body.data[1] \subseteq VALID_FIELDS
  /\ (pc \in {"post", "response", "done"} /\ table_id # "") =>
       \A k \in DOMAIN data :
         (k \in VALID_FIELDS /\ data[k].t # "null") =>
            body # NoBody /\ k \in DOMAIN body.data[1]

\* C5 witness: a record with unknown identifiers was posted without them
C5_Witness ==
  /\ posts = 1
  /\ {76, 88} \subseteq DOMAIN data
  /\ 6 \in DOMAIN body.data[1]
  /\ 76 \notin DOMAIN body.data[1]

\* C6: upsert_record returns a boolean for every response: True only with a
\* returned row, False for a 207 without rows, for every other status and
\* for every raised error.
C6_AlwaysBoolean ==
  pc = "done" =>
    /\ ret.t = "bool"
    /\ ret.v => (posts = 1 /\ response.status \in {200, 207} /\ response.data = "row")
    /\ response.data # "row" => ~ret.v
    /\ response.status \notin {200, 207} => ~ret.v

\* C7: at most one POST is issued, and none after the response has arrived.
C7_AtMostOnePost ==
  /\ posts <= 1
  /\ posts = 1 => pc \in {"response", "done"}
  /\ pc = "done" /\ body # NoBody => posts = 1

\* C7 witness: a rejected request, reported as failure, was sent once
C7_Witness ==
  /\ pc = "done"
  /\ posts = 1
  /\ response.status = 500
  /\ ret = JBool(FALSE)

\* every module sub-group declares a non-empty orientation string
AllOrientationsDeclared ==
  \A i \in 1..Len(Groups) :
    (HasGet(Groups[i]) /\ Truthy(ModuleOf(Groups[i]))) =>
       /\ HasGet(ModuleOf(Groups[i]))
       /\ Get(ModuleOf(Groups[i]), "orientation", JNull).t = "str"
       /\ Get(ModuleOf(Groups[i]), "orientation", JNull).v # ""

\* C8: when every module sub-group declares an orientation, portrait plus
\* landscape equals the module total, during the walk and in the output.
C8_OrientationBucketsSumToTotal ==
  AllOrientationsDeclared =>
    /\ tot.portrait_count + tot.landscape_count = tot.total_modules
    /\ result.kind = "record" => rec[23].v + rec[24].v = rec[20].v

\* C8 witness: both buckets are filled although a group raised part-way
C8_Witness ==
  /\ result.kind = "record"
  /\ AllOrientationsDeclared
  /\ \E i \in 1..Len(Groups) : <<"array_loop", i>> \in warnings /\ ModuleRuns(Groups[i])
  /\ rec[23].v > 0
  /\ rec[24].v > 0

\* the shading values a group supplies
ShadingOf(g) == Get(g, "shading", EmptyMap)
ShadingRuns(g) ==
  /\ HasGet(g) /\ Truthy(ShadingOf(g)) /\ HasGet(ShadingOf(g))
  /\ HasGet(Get(ShadingOf(g), "solar_access", EmptyMap))
  /\ HasGet(Get(ShadingOf(g), "total_solar_resource_fraction", EmptyMap))
AccessOf(g) == Get(Get(ShadingOf(g), "solar_access", EmptyMap), "annual", JNull)
TsrfOf(g) == Get(Get(ShadingOf(g), "total_solar_resource_fraction", EmptyMap), "annual", JNull)
SuppliesAccess(g) == ShadingRuns(g) /\ AccessOf(g).t # "null"
SuppliesTsrf(g) == ShadingRuns(g) /\ TsrfOf(g).t # "null"
AccessSum == Total([i \in 1..Len(Groups) |->
                      IF SuppliesAccess(Groups[i])
                      THEN Num(safe_numeric_value(AccessOf(Groups[i]), JInt(0))) ELSE 0])
TsrfSum == Total([i \in 1..Len(Groups) |->
                    IF SuppliesTsrf(Groups[i])
                    THEN Num(safe_numeric_value(TsrfOf(Groups[i]), JInt(0))) ELSE 0])
AccessCount == Cardinality({i \in 1..Len(Groups) : SuppliesAccess(Groups[i])})
TsrfCount == Cardinality({i \in 1..Len(Groups) : SuppliesTsrf(Groups[i])})

\* C9: field 65 is the mean of solar_access.annual over the groups that
\* supplied it, field 67 the mean of the TSRF over the groups that supplied a
\* TSRF, each rounded to two decimals.
C9_MeansOverSuppliers ==
  result.kind = "record" =>
    /\ AccessCount > 0 =>
         rec[65].t = "dec2" /\ rec[65].v \in Round2(AccessSum, AccessCount)
    /\ TsrfCount > 0 =>
         rec[67].t = "dec2" /\ rec[67].v \in Round2(TsrfSum, TsrfCount)

\* C10 (as stated): every known category on more than one line has the sum of
\* its quantities in its quantity field and its first line's SKU in its SKU
\* field.
C10_EveryCategoryAccumulates ==
  result.kind = "record" =>
    \A c \in KnownCategories :
      Cardinality(LinesOf(c)) > 1 =>
        /\ rec[SkuField[c]] = SkuOf(Lines[FirstOf(c)])
        /\ c \in DOMAIN QtyField => rec[QtyField[c]].v = QtySum(c)

\* C10 (amended): only racking accumulates and keeps its first SKU; every
\* other known category on more than one line has its last line's SKU in its
\* SKU field, and 36 and 37 hold the last line's quantity.
C10_OnlyRackingAccumulates ==
  result.kind = "record" =>
    \A c \in KnownCategories :
      Cardinality(LinesOf(c)) > 1 =>
        IF c = "racking"
        THEN /\ rec[84] = SkuOf(Lines[FirstOf(c)])
             /\ rec[32].v = (IF QtySum(c) > 0 THEN QtySum(c) ELSE 0)
        ELSE /\ rec[SkuField[c]] = SkuOf(Lines[LastOf(c)])
             /\ c \in {"combiner_boxes", "disconnects"} =>
                  rec[QtyField[c]] = QtyOf(Lines[LastOf(c)])

\* C10 witness: a category on two lines with different SKUs
C10_Witness ==
  /\ result.kind = "record"
  /\ \E c \in KnownCategories :
       /\ Cardinality(LinesOf(c)) > 1
       /\ SkuOf(Lines[FirstOf(c)]) # SkuOf(Lines[LastOf(c)])
       /\ c \in DOMAIN QtyField
       /\ QtySum(c) > Num(QtyOf(Lines[LastOf(c)]))

\* C11: with racking lines in the bill of materials, field 32 is the sum of
\* their quantities and field 84 the SKU of the first of them, empty or not.
C11_RackingSumAndFirstSku ==
  (result.kind = "record" /\ LinesOf("racking") # {}) =>
    /\ rec[32] = JInt(QtySum("racking"))
    /\ rec[84] = SkuOf(Lines[FirstOf("racking")])

\* C11 witness: quantities 4 and 6 give 10, and the empty first SKU stays
C11_Witness ==
  /\ result.kind = "record"
  /\ Cardinality(LinesOf("racking")) = 2
  /\ Num(QtyOf(Lines[FirstOf("racking")])) = 4
  /\ Num(QtyOf(Lines[LastOf("racking")])) = 6
  /\ rec[32] = JInt(10)
  /\ SkuOf(Lines[LastOf("racking")]) # JStr("")
  /\ rec[84] = JStr("")

\* the customer sub-document, empty when the project or the customer is missing
CustomerOf ==
  IF HasGet(project) /\ Truthy(project) THEN Get(project, "customer", EmptyMap) ELSE EmptyMap

\* first name + last name stripped, else the name field, else 'N/A'
DisplayName ==
  IF ~HasGet(CustomerOf) \/ ~Truthy(CustomerOf) THEN JStr("N/A")
  ELSE LET first == safe_string_value(Get(CustomerOf, "first_name", JStr("")), JStr(""), 1000).v
           last == safe_string_value(Get(CustomerOf, "last_name", JStr("")), JStr(""), 1000).v
           name == safe_string_value(Get(CustomerOf, "name", JStr("")), JStr(""), 1000)
       IN IF FullName(first, last) # "" THEN JStr(FullName(first, last))
          ELSE IF name.v # "" THEN name
          ELSE JStr("N/A")

\* C12: field 91 is the stripped first and last name when non-empty, else the
\* customer's name when non-empty, else 'N/A'.
C12_CustomerDisplayName ==
  result.kind = "record" => rec[91] = DisplayName

\* the size-limited snapshot fields: their caps and what they serialize
CappedFields == {53, 29, 73, 10}
CapOf(f) == CASE f = 53 -> 5000 [] f = 29 -> 1000 [] OTHER -> 10000
PartOf(f) ==
  CASE f = 53 -> "monthly" [] f = 29 -> "arrays" [] f = 73 -> "bom" [] OTHER -> "doc"

\* C13: fields 53, 29, 73 and 10 never exceed 5,000, 1,000, 10,000 and 10,000
\* characters, and a longer serialization is stored as its first cap characters.
C13_SizeCaps ==
  result.kind \in {"record", "fallback"} =>
    \A f \in CappedFields \cap DOMAIN rec :
      /\ TextLen(rec[f]) <= CapOf(f)
      /\ rec[f].t = "json" =>
           /\ rec[f].v.src = PartOf(f)
           /\ rec[f].v.full = lens[PartOf(f)]
           /\ rec[f].v.n = (IF lens[PartOf(f)] > CapOf(f) THEN CapOf(f) ELSE lens[PartOf(f)])

\* C13 witness: all four serializations were over their caps and were cut
C13_Witness ==
  /\ result.kind = "record"
  /\ rec[53] = JText("monthly", 5000, 5001)
  /\ rec[29] = JText("arrays", 1000, 1001)
  /\ rec[73] = JText("bom", 10000, 10001)
  /\ rec[10] = JText("doc", 10000, 12000)

\* C14: the defaulting pass leaves every key already in the record with its
\* value, gives every key it inserts the declared default, and no later step
\* of the builder writes the record.
C14_DefaultsOnlyAdd ==
  [][/\ pc = "defaults" =>
          /\ \A k \in DOMAIN qb_record :
               k \in DOMAIN qb_record' /\ qb_record'[k] = qb_record[k]
          /\ \A k \in DOMAIN qb_record' \ DOMAIN qb_record :
               k \in DOMAIN field_defaults /\ qb_record'[k] = field_defaults[k]
     /\ pc \in {"returned", "post", "response", "done"} => qb_record' = qb_record]_vars

\* C14 witness: the pass has run on a record whose populated fields differ
\* from their defaults and has filled a field the builder never writes
C14_Witness ==
  /\ result.kind = "record"
  /\ rec = qb_record
  /\ {10, 19, 91} \subseteq DOMAIN field_defaults
  /\ rec[10] # field_defaults[10]
  /\ rec[19] # field_defaults[19]
  /\ rec[91] # field_defaults[91]
  /\ rec[75] = field_defaults[75]

\* the empty literal that matches the first character of a text
EmptyLiteralOf(x) == IF StartsWith(x, "{") THEN JStr("{}") ELSE JStr("[]")
\* a serialization the builder cut short of its end
CutShort(x) == x.t = "json" /\ x.v.n < x.v.full

\* C15: every registered text value handed to validate_field_data that begins
\* with '{' or '[' is dispatched either as the same text cut to 10,000
\* characters, and then it parses, or as the matching empty literal; a
\* serialization the builder cut short is dispatched as the empty literal.
C15_NoMalformedJsonDispatched ==
  body # NoBody =>
    \A k \in DOMAIN data :
      (/\ ValidField(k)
       /\ data[k].t \in {"str", "json"}
       /\ StartsWith(data[k], "{") \/ StartsWith(data[k], "[")) =>
        /\ k \in DOMAIN body.data[1]
        /\ \/ body.data[1][k] = TextSlice(data[k], 10000) /\ Parses(body.data[1][k])
           \/ body.data[1][k] = EmptyLiteralOf(data[k])
        /\ CutShort(data[k]) => body.data[1][k] = EmptyLiteralOf(data[k])

\* C15 witness: a body was built from a record holding a cut document
\* snapshot, a cut arrays snapshot, a whole JSON text and two broken ones
C15_Witness ==
  /\ body # NoBody
  /\ {10, 29, 61, 62, 63, 64} \subseteq DOMAIN data
  /\ data[10] = JText("doc", 10000, 12000) /\ body.data[1][10] = JStr("{}")
  /\ data[29] = JText("arrays", 1000, 1001) /\ body.data[1][29] = JStr("[]")
  /\ data[61] = JStr("[1, 2]") /\ body.data[1][61] = JStr("[1, 2]")
  /\ data[62] = JStr("[abc") /\ body.data[1][62] = JStr("[]")
  /\ data[63] = JStr("{\"a\": [1, 2") /\ body.data[1][63] = JStr("{}")
  /\ data[64] = JText("bom", 10001, 10001) /\ body.data[1][64] = JStr("[]")

\* the record handed to upsert_record holds every field of the returned one
HandedOn == result.kind \in {"record", "fallback"} /\ DOMAIN rec \subseteq DOMAIN data

\* C16: every record transform_data returns, normally or as the fallback, has
\* field 6 with a text value; validation keeps the field, so the body built
\* from such a record is never empty and carries field 6 under mergeFieldId 6.
C16_MergeKeyDispatched ==
  /\ result.kind \in {"record", "fallback"} => 6 \in DOMAIN rec /\ rec[6].t = "str"
  /\ (body # NoBody /\ HandedOn) =>
       /\ body.mergeFieldId = 6
       /\ 6 \in DOMAIN body.data[1]
       /\ body.data[1][6].t = "str"
  /\ (pc \in {"post", "response", "done"} /\ table_id # "" /\ HandedOn) => body # NoBody

\* C16 witness: the fallback record of a document whose design_id is null was
\* posted with the default text as its merge key
C16_Witness ==
  /\ posts = 1
  /\ result.kind = "fallback"
  /\ Get(design, "design_id", JStr("ERROR")) = JNull
  /\ data = rec
  /\ rec[6] = JStr("N/A")
  /\ body.data[1][6] = JStr("N/A")

====
